---- MODULE Spec2Model ----
(***************************************************************************)
(* Input::GameController of src/input/controller.cpp: the ring of sampled  *)
(* controller states, its per-slot "obtained" flag, the mutex that guards  *)
(* them, and the L2/R2 derivation from the analog triggers.                *)
(*                                                                         *)
(* A u32 button mask is modelled as the set of its set bits: |= is set     *)
(* union and &= ~ is set difference.                                       *)
(***************************************************************************)
EXTENDS Integers, Sequences, FiniteSets, TLC

\* ---------------------------------------------------------------- bounds

\* Ring capacity (64 in the emulator; scaled down so that wrap-around happens).
MAX_STATES == 3
\* Total number of AddState calls in a run.
MaxAppends == 4
\* Largest states_num a caller passes to ReadStates.
MaxCap == 3
\* Largest value of the process clock.
MaxTime == 2
\* Number of disconnected -> connected transitions in a run.
MaxConnects == 2
\* Number of trigger events in a run of the trigger specification.
MaxTrigEvents == 6

\* ------------------------------------------------------------- constants

ON_THRESHOLD == 31
OFF_THRESHOLD == 16

BTN_CROSS == "CROSS"
BTN_L2 == "L2"
BTN_R2 == "R2"

AXIS_LeftX == "LeftX"
AXIS_TriggerLeft == "TriggerLeft"
AXIS_TriggerRight == "TriggerRight"

AxisIds == {AXIS_LeftX, AXIS_TriggerLeft, AXIS_TriggerRight}

\* The two backend threads that deliver events.
Producers == {1, 2}
NoOwner == 0

\* nullptr, and the one pad SDL can open.
NoGamepad == "nullptr"
Gamepad == "gamepad0"

\* u8 arguments tried for the light bar and the motors.
LedLevels == {0, 255}
MotorLevels == {0, 128, 255}

Slots == 0 .. (MAX_STATES - 1)

\* State(): the value-initialised record.
ZeroState == [time |-> 0, buttonsState |-> {}, axes |-> [a \in AxisIds |-> 0]]

VARIABLES
    m_connected,        \* bool m_connected
    m_connected_count,  \* int m_connected_count
    m_states_num,       \* u32 m_states_num
    m_first_state,      \* u32 m_first_state
    m_states,           \* std::array<State, MAX_STATES>
    m_private,          \* std::array<StateInternal, MAX_STATES>: the obtained flags
    m_last_state,       \* State m_last_state
    m_mutex,            \* owner of m_mutex, NoOwner when free
    pc,                 \* per producer: "idle", or "composed" (inside the handler, before AddState)
    state,              \* per producer: the handler's local `state`
    event,              \* per producer: the arguments of the running handler
    now,                \* sceKernelGetProcessTime()
    ret_num,            \* last ReadStates: the value returned
    out_states,         \* last ReadStates: the entries written to states[], states[0] first
    out_isConnected,    \* last ReadStates: *isConnected
    out_connectedCount, \* last ReadStates: *connectedCount
    call_cap,           \* last ReadStates: the states_num argument (-1 before any call)
    slot_id,            \* history: the append number of the sample held by each slot
    appends,            \* history: number of AddState calls
    evictions,          \* history: number of times AddState dropped the oldest sample
    delivered,          \* history: append numbers returned by ReadStates, in return order
    out_ids,            \* history: append numbers of the entries of out_states (0: m_last_state)
    out_appends,        \* history: the value of appends when ReadStates was last called
    trig_hist,          \* history: <<value, L2 bit appended>> of every TriggerLeft event
    last_outside,       \* history: per trigger, its last value outside [OFF, ON] (-1: none yet)
    rd_state,           \* last ReadState: *state
    rd_isConnected,     \* last ReadState: *isConnected
    rd_connectedCount,  \* last ReadState: *connectedCount
    m_sdl_gamepad,      \* SDL_Gamepad* m_sdl_gamepad
    led,                \* backend: the last colour SDL_SetGamepadLED was given (<<>>: none)
    rumble,             \* backend: the last motor values SDL_RumbleGamepad was given (<<>>: none)
    vib_ret             \* last SetVibration: <<the value returned>> (<<>> before any call)

ring == <<m_states_num, m_first_state, m_states, m_private, m_last_state>>
conn == <<m_connected, m_connected_count>>
thr == <<m_mutex, pc, state, event>>
outs == <<ret_num, out_states, out_isConnected, out_connectedCount, call_cap, out_ids,
          out_appends>>
hist == <<slot_id, appends, evictions>>
trig == <<trig_hist, last_outside>>
reads == <<rd_state, rd_isConnected, rd_connectedCount>>
backend == <<m_sdl_gamepad, led, rumble, vib_ret>>

vars == <<ring, conn, thr, now, outs, hist, delivered, trig, reads, backend>>

\* ---------------------------------------------------------------- events

ButtonEvent(button, isPressed) ==
    [kind |-> "button", button |-> button, isPressed |-> isPressed,
     axis |-> AXIS_LeftX, value |-> 0]

AxisEvent(axis, value) ==
    [kind |-> "axis", button |-> {}, isPressed |-> FALSE, axis |-> axis, value |-> value]

NoEvent == ButtonEvent({}, FALSE)

\* Events the backend delivers in the controller specification.
PadEvents ==
    {ButtonEvent({BTN_CROSS}, TRUE), ButtonEvent({BTN_CROSS}, FALSE),
     AxisEvent(AXIS_LeftX, 100)}

\* Events the backend threads deliver in the producer specification.
ProducerEvents ==
    PadEvents \cup {AxisEvent(AXIS_TriggerLeft, 40), AxisEvent(AXIS_TriggerLeft, 10)}

\* Trigger values of the trigger specification: the scenario 0,20,28,40,20,10 on the
\* left trigger, the edges of the dead band on the right one.
TrigEvents ==
    {AxisEvent(AXIS_TriggerLeft, v) : v \in {0, 10, 20, 28, 40}}
        \cup {AxisEvent(AXIS_TriggerRight, v) : v \in {15, 16, 31, 32}}

TriggerAxes == {AXIS_TriggerLeft, AXIS_TriggerRight}
TriggerBit(axis) == IF axis = AXIS_TriggerLeft THEN BTN_L2 ELSE BTN_R2

\* ------------------------------------------------------------ ring helpers

\* Mutant of SlotIndex: the append lands one slot further on.
SlotIndexNext(first, i) == (first + i + 1) % MAX_STATES

\* (m_first_state + i) % MAX_STATES
SlotIndex(first, i) == (first + i) % MAX_STATES

\* Mutant of LastIndex: the slot after the newest sample.
LastIndexPastEnd == (m_first_state + m_states_num) % MAX_STATES

\* auto last = (m_first_state + m_states_num - 1) % MAX_STATES
LastIndex == (m_first_state + m_states_num - 1) % MAX_STATES

\* GetLastState()
GetLastState ==
    IF m_states_num = 0
        THEN m_last_state
        ELSE m_states[LastIndex]

\* Mutant of Evict: a ring that is full is found full one append too late.
EvictLate(num, first) ==
    IF num > MAX_STATES
        THEN [num |-> MAX_STATES - 1, first |-> (first + 1) % MAX_STATES, evicted |-> 1]
        ELSE [num |-> num, first |-> first, evicted |-> 0]

\* Mutant of Evict: the head of a full ring is not advanced.
EvictKeepsHead(num, first) ==
    IF num >= MAX_STATES
        THEN [num |-> MAX_STATES - 1, first |-> first, evicted |-> 1]
        ELSE [num |-> num, first |-> first, evicted |-> 0]

\* The head of AddState: drop the oldest sample of a full ring.
Evict(num, first) ==
    IF num >= MAX_STATES
        THEN [num |-> MAX_STATES - 1, first |-> (first + 1) % MAX_STATES, evicted |-> 1]
        ELSE [num |-> num, first |-> first, evicted |-> 0]

\* AddState(s)
AddState(s) ==
    LET e == Evict(m_states_num, m_first_state)
        index == SlotIndex(e.first, e.num)
    IN  /\ m_first_state' = e.first
        /\ m_states' = [m_states EXCEPT ![index] = s]
        /\ m_last_state' = s
        /\ m_private' = [m_private EXCEPT ![index] = FALSE]
        /\ m_states_num' = e.num + 1
        /\ slot_id' = [slot_id EXCEPT ![index] = appends + 1]
        /\ appends' = appends + 1
        /\ evictions' = evictions + e.evicted

\* ------------------------------------------------------- event composition

\* Mutant of DeriveTrigger: the on threshold itself switches the bit on.
DeriveTriggerInclusive(buttons, bit, value) ==
    IF value >= ON_THRESHOLD
        THEN buttons \cup {bit}
        ELSE IF value < OFF_THRESHOLD
            THEN buttons \ {bit}
            ELSE buttons

\* The hysteresis of Axis(): the new button mask for a trigger value.
DeriveTrigger(buttons, bit, value) ==
    IF value > ON_THRESHOLD
        THEN buttons \cup {bit}
        ELSE IF value < OFF_THRESHOLD
            THEN buttons \ {bit}
            ELSE buttons

\* CheckButton() up to its AddState call.
ComposeButton(s, button, isPressed, t) ==
    [s EXCEPT !.time = t,
              !.buttonsState = IF isPressed THEN @ \cup button ELSE @ \ button]

\* Axis() up to its AddState call.
ComposeAxis(s, axis, value, t) ==
    LET s1 == [s EXCEPT !.time = t, !.axes[axis] = value]
        s2 == IF axis = AXIS_TriggerLeft
                  THEN [s1 EXCEPT !.buttonsState = DeriveTrigger(@, BTN_L2, value)]
                  ELSE s1
    IN  IF axis = AXIS_TriggerRight
            THEN [s2 EXCEPT !.buttonsState = DeriveTrigger(@, BTN_R2, value)]
            ELSE s2

Compose(s, ev, t) ==
    IF ev.kind = "button"
        THEN ComposeButton(s, ev.button, ev.isPressed, t)
        ELSE ComposeAxis(s, ev.axis, ev.value, t)

\* ------------------------------------------------------------------ mutex

\* Mutant of CanLock: the handlers run without the mutex.
CanLockUnguarded(t) == TRUE

\* std::scoped_lock lock{m_mutex} can be taken.
CanLock(t) == m_mutex = NoOwner

\* ------------------------------------------------------------- ReadStates

\* Mutant of ReadIndex: the loop walks the ring from its newest sample down.
ReadIndexNewestFirst(i) == (m_first_state + m_states_num - 1 - i + MAX_STATES) % MAX_STATES

\* Mutant of ReadIndex: the loop forgets where the ring starts.
ReadIndexFromZero(i) == i % MAX_STATES

\* auto index = (m_first_state + i) % MAX_STATES, of the loop of ReadStates.
ReadIndex(i) == (m_first_state + i) % MAX_STATES

\* Mutant of MarkObtained: the flag is never set.
MarkObtainedForgotten(priv, index) == priv

\* obtained = true for one slot.
MarkObtained(priv, index) == [priv EXCEPT ![index] = TRUE]

\* Mutant of BufferFull: the loop stops one entry early.
BufferFullEarly(n, states_num) == n + 1 >= states_num

\* Mutant of BufferFull: the loop stops one entry late.
BufferFullLate(n, states_num) == n > states_num

\* if (ret_num >= states_num) break
BufferFull(n, states_num) == n >= states_num

\* The for loop of ReadStates from iteration i on: taken lists the slots copied so far.
RECURSIVE DrainLoop(_, _, _, _)
DrainLoop(i, taken, priv, states_num) ==
    IF i >= m_states_num \/ BufferFull(Len(taken), states_num)
        THEN [taken |-> taken, priv |-> priv]
        ELSE LET index == ReadIndex(i)
             IN  IF ~priv[index]
                     THEN DrainLoop(i + 1, Append(taken, index),
                                    MarkObtained(priv, index), states_num)
                     ELSE DrainLoop(i + 1, taken, priv, states_num)

\* Mutant of ReportsStates: the connection is not looked at.
ReportsStatesAlways == TRUE

\* Whether ReadStates enters its body: if (m_connected).
ReportsStates == m_connected

\* Mutant of AnswersLastState: an empty ring is drained like any other.
AnswersLastStateNever == FALSE

\* Whether ReadStates answers with m_last_state: if (m_states_num == 0).
AnswersLastState == m_states_num = 0

\* ---------------------------------------------------------------- initial

\* The constructor sets m_states_num and m_last_state; the other members start from
\* their declarations: not connected, connection count 0, ring head at slot 0, mutex
\* free. The slots outside the live window are never read before AddState fills them.
Init ==
    /\ m_connected = FALSE
    /\ m_connected_count = 0
    /\ m_states_num = 0
    /\ m_first_state = 0
    /\ m_states = [i \in Slots |-> ZeroState]
    /\ m_private = [i \in Slots |-> FALSE]
    /\ m_last_state = ZeroState
    /\ m_mutex = NoOwner
    /\ pc = [t \in Producers |-> "idle"]
    /\ state = [t \in Producers |-> ZeroState]
    /\ event = [t \in Producers |-> NoEvent]
    /\ now = 0
    /\ ret_num = 0
    /\ out_states = <<>>
    /\ out_isConnected = FALSE
    /\ out_connectedCount = 0
    /\ call_cap = -1
    /\ slot_id = [i \in Slots |-> 0]
    /\ appends = 0
    /\ evictions = 0
    /\ delivered = <<>>
    /\ out_ids = <<>>
    /\ out_appends = 0
    /\ trig_hist = <<>>
    /\ last_outside = [a \in TriggerAxes |-> -1]
    /\ rd_state = ZeroState
    /\ rd_isConnected = FALSE
    /\ rd_connectedCount = 0
    /\ m_sdl_gamepad = NoGamepad
    /\ led = <<>>
    /\ rumble = <<>>
    /\ vib_ret = <<>>

\* ---------------------------------------------------------------- actions

\* CheckButton / Axis, first half: take the mutex, copy GetLastState(), read the
\* clock and apply the event to the local copy.
Begin(t, ev) ==
    /\ pc[t] = "idle"
    /\ CanLock(t)
    /\ m_mutex' = t
    /\ state' = [state EXCEPT ![t] = Compose(GetLastState, ev, now)]
    /\ event' = [event EXCEPT ![t] = ev]
    /\ pc' = [pc EXCEPT ![t] = "composed"]
    /\ UNCHANGED <<ring, conn, now, outs, hist, delivered, trig, reads, backend>>

\* CheckButton / Axis, second half: AddState(state) and the release of the mutex.
Finish(t) ==
    /\ pc[t] = "composed"
    /\ AddState(state[t])
    /\ m_mutex' = NoOwner
    /\ state' = [state EXCEPT ![t] = ZeroState]
    /\ event' = [event EXCEPT ![t] = NoEvent]
    /\ pc' = [pc EXCEPT ![t] = "idle"]
    /\ LET ev == event[t]
           isTrigger == ev.kind = "axis" /\ ev.axis \in TriggerAxes
           outside == ev.value < OFF_THRESHOLD \/ ev.value > ON_THRESHOLD
           bit == IF BTN_L2 \in state[t].buttonsState THEN 1 ELSE 0
       IN  /\ trig_hist' = IF isTrigger /\ ev.axis = AXIS_TriggerLeft
                               THEN Append(trig_hist, <<ev.value, bit>>)
                               ELSE trig_hist
           /\ last_outside' = IF isTrigger /\ outside
                                  THEN [last_outside EXCEPT ![ev.axis] = ev.value]
                                  ELSE last_outside
    /\ UNCHANGED <<conn, now, outs, delivered, reads, backend>>

\* Mutant of ReadStates: the samples a drain returns leave the ring.
ReadStatesConsuming(states_num) ==
    /\ CanLock(NoOwner)
    /\ out_isConnected' = m_connected
    /\ out_connectedCount' = m_connected_count
    /\ call_cap' = states_num
    /\ out_appends' = appends
    /\ IF ReportsStates
           THEN IF AnswersLastState
                    THEN /\ ret_num' = 1
                         /\ out_states' = <<m_last_state>>
                         /\ out_ids' = <<0>>
                         /\ UNCHANGED <<m_private, delivered, m_states_num, m_first_state>>
                    ELSE LET d == DrainLoop(0, <<>>, m_private, states_num)
                             ids == [k \in 1 .. Len(d.taken) |-> slot_id[d.taken[k]]]
                         IN  /\ ret_num' = Len(d.taken)
                             /\ out_states' = [k \in 1 .. Len(d.taken) |-> m_states[d.taken[k]]]
                             /\ out_ids' = ids
                             /\ m_private' = d.priv
                             /\ delivered' = delivered \o ids
                             /\ m_states_num' = m_states_num - Len(d.taken)
                             /\ m_first_state' = (m_first_state + Len(d.taken)) % MAX_STATES
           ELSE /\ ret_num' = 0
                /\ out_states' = <<>>
                /\ out_ids' = <<>>
                /\ UNCHANGED <<m_private, delivered, m_states_num, m_first_state>>
    /\ UNCHANGED <<m_states, m_last_state, conn, thr, now, hist, trig, reads, backend>>

\* ReadStates(states, states_num, isConnected, connectedCount), whole under the mutex.
ReadStates(states_num) ==
    /\ CanLock(NoOwner)
    /\ out_isConnected' = m_connected
    /\ out_connectedCount' = m_connected_count
    /\ call_cap' = states_num
    /\ out_appends' = appends
    /\ IF ReportsStates
           THEN IF AnswersLastState
                    THEN /\ ret_num' = 1
                         /\ out_states' = <<m_last_state>>
                         /\ out_ids' = <<0>>
                         /\ UNCHANGED <<m_private, delivered>>
                    ELSE LET d == DrainLoop(0, <<>>, m_private, states_num)
                             ids == [k \in 1 .. Len(d.taken) |-> slot_id[d.taken[k]]]
                         IN  /\ ret_num' = Len(d.taken)
                             /\ out_states' = [k \in 1 .. Len(d.taken) |-> m_states[d.taken[k]]]
                             /\ out_ids' = ids
                             /\ m_private' = d.priv
                             /\ delivered' = delivered \o ids
           ELSE /\ ret_num' = 0
                /\ out_states' = <<>>
                /\ out_ids' = <<>>
                /\ UNCHANGED <<m_private, delivered>>
    /\ UNCHANGED <<m_states_num, m_first_state, m_states, m_last_state,
                   conn, thr, now, hist, trig, reads, backend>>

\* Mutant of ReadState: the snapshot read marks the newest sample as obtained.
ReadStateMarking ==
    /\ CanLock(NoOwner)
    /\ rd_isConnected' = m_connected
    /\ rd_connectedCount' = m_connected_count
    /\ rd_state' = GetLastState
    /\ m_private' = IF m_states_num = 0 THEN m_private
                                        ELSE [m_private EXCEPT ![LastIndex] = TRUE]
    /\ UNCHANGED <<m_states_num, m_first_state, m_states, m_last_state,
                   conn, thr, now, outs, hist, delivered, trig, backend>>

\* ReadState(state, isConnected, connectedCount), whole under the mutex.
ReadState ==
    /\ CanLock(NoOwner)
    /\ rd_isConnected' = m_connected
    /\ rd_connectedCount' = m_connected_count
    /\ rd_state' = GetLastState
    /\ UNCHANGED <<ring, conn, thr, now, outs, hist, delivered, trig, backend>>

\* (motor / 255.0f) * 0xFFFF as the Uint16 SDL_RumbleGamepad takes: in float
\* arithmetic it is motor * 257 for every u8.
RumbleScale(motor) == (motor * 65535) \div 255

\* Mutant of NoGamepadResult: a missing pad is reported as a failure.
NoGamepadResultFailure == FALSE

\* SetVibration without a pad: return true.
NoGamepadResult == TRUE

\* SetLightBarRGB(r, g, b)
SetLightBarRGB(r, g, b) ==
    /\ led' = IF m_sdl_gamepad # NoGamepad THEN <<r, g, b>> ELSE led
    /\ UNCHANGED <<m_sdl_gamepad, rumble, vib_ret>>
    /\ UNCHANGED <<ring, conn, thr, now, outs, hist, delivered, trig, reads>>

\* SetVibration(smallMotor, largeMotor); rumbled is whether SDL_RumbleGamepad returns 0.
SetVibration(smallMotor, largeMotor, rumbled) ==
    /\ IF m_sdl_gamepad # NoGamepad
           THEN /\ rumble' = <<RumbleScale(smallMotor), RumbleScale(largeMotor), -1>>
                /\ vib_ret' = <<rumbled>>
           ELSE /\ rumble' = rumble
                /\ vib_ret' = <<NoGamepadResult>>
    /\ UNCHANGED <<m_sdl_gamepad, led>>
    /\ UNCHANGED <<ring, conn, thr, now, outs, hist, delivered, trig, reads>>

\* TryOpenSDLController(); attached is SDL_GamepadConnected(m_sdl_gamepad), opened is
\* what SDL_OpenGamepad(gamepads[0]) returns, or nullptr when SDL lists no pad.
TryOpenSDLController(attached, opened) ==
    /\ m_sdl_gamepad' = IF m_sdl_gamepad = NoGamepad \/ ~attached
                            THEN opened
                            ELSE m_sdl_gamepad
    /\ led' = IF m_sdl_gamepad' # NoGamepad THEN <<0, 0, 255>> ELSE led
    /\ UNCHANGED <<rumble, vib_ret>>
    /\ UNCHANGED <<ring, conn, thr, now, outs, hist, delivered, trig, reads>>

\* The backend reports the pad attached: disconnected -> connected.
Connect ==
    /\ CanLock(NoOwner)
    /\ ~m_connected
    /\ m_connected_count < MaxConnects
    /\ m_connected' = TRUE
    /\ m_connected_count' = m_connected_count + 1
    /\ UNCHANGED <<ring, thr, now, outs, hist, delivered, trig, reads, backend>>

\* The backend reports the pad detached.
Disconnect ==
    /\ CanLock(NoOwner)
    /\ m_connected
    /\ m_connected' = FALSE
    /\ UNCHANGED <<m_connected_count, ring, thr, now, outs, hist, delivered, trig, reads, backend>>

\* The monotonic process clock advances.
Tick ==
    /\ now < MaxTime
    /\ now' = now + 1
    /\ UNCHANGED <<ring, conn, thr, outs, hist, delivered, trig, reads, backend>>

\* Handlers that hold the mutex and have not yet appended.
InFlight == Cardinality({t \in Producers : pc[t] # "idle"})

\* The controller: events, polls and hot-plug, with the clock at rest.
Next ==
    \/ \E t \in Producers, ev \in PadEvents :
           appends + InFlight < MaxAppends /\ Begin(t, ev)
    \/ \E t \in Producers : Finish(t)
    \/ \E states_num \in 0 .. MaxCap : ReadStates(states_num)
    \/ Connect
    \/ Disconnect

Spec == Init /\ [][Next]_vars

\* The producers: two backend threads and the running clock.
NextProducers ==
    \/ \E t \in Producers, ev \in ProducerEvents :
           appends + InFlight < MaxAppends /\ Begin(t, ev)
    \/ \E t \in Producers : Finish(t)
    \/ Tick

SpecProducers == Init /\ [][NextProducers]_vars

\* The readers: a pad that is attached once, polled with ReadState as well as with
\* ReadStates.
NextRead ==
    \/ \E ev \in PadEvents :
           appends + InFlight < MaxAppends /\ Begin(1, ev)
    \/ Finish(1)
    \/ \E states_num \in {1, MaxCap} : ReadStates(states_num)
    \/ ReadState
    \/ Connect

SpecRead == Init /\ [][NextRead]_vars

\* The device: the thread that opens the pad and drives its light bar and motors, beside
\* one thread delivering events.
NextBackend ==
    \/ \E ev \in {ButtonEvent({BTN_CROSS}, TRUE), ButtonEvent({BTN_CROSS}, FALSE)} :
           appends + InFlight < MaxAppends /\ Begin(1, ev)
    \/ Finish(1)
    \/ \E attached \in BOOLEAN, opened \in {NoGamepad, Gamepad} :
           TryOpenSDLController(attached, opened)
    \/ \E r, g, b \in LedLevels : SetLightBarRGB(r, g, b)
    \/ \E small, large \in MotorLevels, rumbled \in BOOLEAN :
           SetVibration(small, large, rumbled)

SpecBackend == Init /\ [][NextBackend]_vars

\* The triggers: one backend thread delivering trigger values.
NextTrig ==
    \/ \E ev \in TrigEvents :
           appends + InFlight < MaxTrigEvents /\ Begin(1, ev)
    \/ Finish(1)

SpecTrig == Init /\ [][NextTrig]_vars

\* ------------------------------------------------------------- properties

Range(seq) == {seq[i] : i \in 1 .. Len(seq)}

StrictlyIncreasing(seq) == \A i, j \in 1 .. Len(seq) : i < j => seq[i] < seq[j]

\* The slots of the live samples, oldest first.
LiveSeq == [k \in 1 .. m_states_num |-> (m_first_state + k - 1) % MAX_STATES]

\* The append numbers of the live samples no ReadStates has returned, oldest first.
Unobtained == LET fresh(i) == ~m_private[i]
              IN  [k \in 1 .. Len(SelectSeq(LiveSeq, fresh)) |->
                      slot_id[SelectSeq(LiveSeq, fresh)[k]]]

Min(a, b) == IF a < b THEN a ELSE b

\* C1: no appended sample is returned by ReadStates twice: the append numbers returned
\* so far are pairwise distinct, and a live slot's obtained flag is set exactly when its
\* sample has been returned, so a set flag falls back to false only with the AddState
\* that puts a newer sample into the slot.
C1_ReturnedOnce ==
    /\ \A i, j \in 1 .. Len(delivered) : i # j => delivered[i] # delivered[j]
    /\ \A k \in 1 .. m_states_num :
           m_private[LiveSeq[k]] <=> slot_id[LiveSeq[k]] \in Range(delivered)

\* A returned sample has since been overwritten, and the sample that replaced it in the
\* ring has been returned as well.
C1_Witness ==
    /\ evictions >= 1
    /\ \E i \in 1 .. Len(delivered) : delivered[i] <= evictions
    /\ \E i \in 1 .. Len(delivered) : delivered[i] > MAX_STATES

\* C2: ReadStates returns samples in append order: the entries of one call are in
\* increasing append position, and so is the concatenation of all calls' entries.
C2_AppendOrder ==
    /\ StrictlyIncreasing(delivered)
    /\ StrictlyIncreasing(out_ids)
    /\ \A k \in 1 .. Len(out_ids) :
           out_ids[k] # 0 => \E i \in 1 .. Len(delivered) : delivered[i] = out_ids[k]

\* Samples have been returned across a wrap-around by a call that filled its buffer
\* and left newer samples behind.
C2_Witness ==
    /\ evictions >= 1
    /\ Len(delivered) >= 3
    /\ call_cap >= 1
    /\ ret_num = call_cap
    /\ Len(Unobtained) >= 1

\* C3 as stated: a connected controller yields at least one state on every poll with
\* room for one.
C3_EveryPollYields == (out_isConnected /\ call_cap >= 1) => ret_num >= 1

\* C3, amended: a connected poll with room for one state yields at least one exactly
\* when the ring has never been appended to or holds a sample not yet returned.
C3_PollYieldsWhenFresh ==
    [][\A c \in 1 .. MaxCap :
          (ReadStates(c) /\ m_connected)
              => (ret_num' >= 1 <=> (m_states_num = 0 \/ Len(Unobtained) >= 1))]_vars

\* A connected poll has returned nothing although the ring holds samples.
C3_Witness ==
    /\ out_isConnected
    /\ call_cap >= 1
    /\ ret_num = 0
    /\ m_states_num >= 1

\* C4: 0 <= m_states_num <= MAX_STATES, m_states_num is the number of appends less the
\* number of evictions, and there has been one eviction for every append that found the
\* ring full, that is for every append after the first MAX_STATES.
C4_CountBounded ==
    /\ 0 <= m_states_num /\ m_states_num <= MAX_STATES
    /\ m_states_num = appends - evictions
    /\ evictions = (IF appends > MAX_STATES THEN appends - MAX_STATES ELSE 0)

\* The ring has wrapped.
C4_Witness == evictions >= 1 /\ m_states_num = MAX_STATES

\* What ReadState() hands out.
ReadStateResult ==
    [state |-> GetLastState, isConnected |-> m_connected,
     connectedCount |-> m_connected_count]

\* C5: right after a handler appends its record, GetLastState() and ReadState() return
\* that record, whatever the fill level of the ring.
C5_LatestIsAppended ==
    [][\A t \in Producers :
          Finish(t) => (GetLastState' = state[t] /\ ReadStateResult'.state = state[t])]_vars

\* An append into a full ring, of a record that differs from the one before it.
C5_Witness ==
    /\ evictions >= 1
    /\ m_states_num = MAX_STATES
    /\ GetLastState = m_last_state
    /\ GetLastState # m_states[(m_first_state + m_states_num - 2) % MAX_STATES]

\* C6: appends of concurrent producers are totally ordered and lose no update: the record
\* a handler appends is the newest record of the ring at that moment, changed only in its
\* time and in what the handler's own event sets.
C6_NoLostUpdate ==
    [][\A t \in Producers :
          Finish(t) => /\ GetLastState' = Compose(GetLastState, event[t], state[t].time)
                       /\ appends' = appends + 1]_vars

\* Three events have been merged into one record while the other producer is inside
\* its handler.
C6_Witness ==
    /\ appends >= 3
    /\ GetLastState.buttonsState = {BTN_CROSS, BTN_L2}
    /\ GetLastState.axes[AXIS_LeftX] = 100
    /\ \E t \in Producers : pc[t] = "composed"

\* C7: while no append has been made, the last poll of a connected controller with room
\* for one state has returned exactly one state, the zero default, with connected true,
\* and the ring is as constructed.
C7_EmptyConnectedPoll ==
    (appends = 0 /\ out_isConnected /\ call_cap >= 1)
        => /\ ret_num = 1
           /\ out_states = <<ZeroState>>
           /\ m_states_num = 0
           /\ m_last_state = ZeroState
           /\ \A i \in Slots : ~m_private[i] /\ m_states[i] = ZeroState

\* Such a poll has been made.
C7_Witness ==
    /\ appends = 0
    /\ out_isConnected
    /\ call_cap >= 1
    /\ ret_num = 1

\* C8 as stated: a poll of a disconnected controller returns 0, reports connected false,
\* writes nothing and changes no ring state, and every sample appended before that poll
\* and not returned by then is returned by the first poll (with room for a state) made
\* once the controller is connected again.
C8_AllReturnedOnReconnect ==
    [][\A c \in 0 .. MaxCap :
          ReadStates(c)
              => /\ ~m_connected
                     => /\ ret_num' = 0
                        /\ out_isConnected' = FALSE
                        /\ out_states' = <<>>
                        /\ UNCHANGED <<ring, delivered>>
                 /\ (m_connected /\ ~out_isConnected /\ call_cap >= 0 /\ c >= 1)
                     => \A id \in 1 .. out_appends :
                            id \notin Range(delivered) => id \in Range(out_ids')]_vars

\* C8, amended: a poll of a disconnected controller returns 0, reports connected false,
\* writes nothing and changes neither the ring nor what has been returned; the samples
\* it left that are still live are what the next poll of the connected controller
\* returns, oldest first, as far as its buffer reaches.
C8_DisconnectedPoll ==
    [][\A c \in 0 .. MaxCap :
          ReadStates(c)
              => /\ ~m_connected
                     => /\ ret_num' = 0
                        /\ out_isConnected' = FALSE
                        /\ out_states' = <<>>
                        /\ UNCHANGED <<ring, delivered>>
                 /\ (m_connected /\ ~out_isConnected /\ call_cap >= 0 /\ m_states_num > 0)
                     => /\ out_ids' = SubSeq(Unobtained, 1, Min(c, Len(Unobtained)))
                        /\ delivered' = delivered \o out_ids']_vars

\* After a poll that was refused with unreturned samples in the ring, the controller is
\* connected for the second time and has not been polled since.
C8_Witness ==
    /\ m_connected
    /\ m_connected_count = 2
    /\ ~out_isConnected
    /\ call_cap >= 1
    /\ ret_num = 0
    /\ Len(Unobtained) >= 2
    /\ Len(delivered) >= 1

\* The <<value, bit>> pairs of the left trigger, as values and as bits.
TrigValues == [i \in 1 .. Len(trig_hist) |-> trig_hist[i][1]]
TrigBits == [i \in 1 .. Len(trig_hist) |-> trig_hist[i][2]]

\* C9: the L2 (R2) bit of the latest state is set iff the last value of the left (right)
\* trigger outside the dead band [16, 31] was above 31; a value inside the band leaves
\* the bit as it was, clear at first; 0,20,28,40,20,10 gives the bits 0,0,0,1,1,0.
C9_Hysteresis ==
    /\ \A a \in TriggerAxes :
           TriggerBit(a) \in GetLastState.buttonsState <=> last_outside[a] > 31
    /\ \A i \in 1 .. Len(trig_hist) :
           (TrigValues[i] >= 16 /\ TrigValues[i] <= 31)
               => TrigBits[i] = (IF i = 1 THEN 0 ELSE TrigBits[i - 1])
    /\ TrigValues = <<0, 20, 28, 40, 20, 10>> => TrigBits = <<0, 0, 0, 1, 1, 0>>

\* The scenario has been played.
C9_Witness == TrigValues = <<0, 20, 28, 40, 20, 10>>

\* C10: the times of the live samples never decrease along the ring.
C10_TimesOrdered ==
    \A k \in 1 .. m_states_num - 1 :
        m_states[LiveSeq[k]].time <= m_states[LiveSeq[k + 1]].time

\* A full, wrapped ring whose newest sample is later than its oldest.
C10_Witness ==
    /\ evictions >= 1
    /\ m_states_num = MAX_STATES
    /\ m_states[LiveSeq[1]].time < m_states[LiveSeq[m_states_num]].time

\* C11: ReadState changes no controller state: the ring head, the count, every slot, every
\* obtained flag, m_last_state, the connection flag and the connection count are as
\* before, and so is what a ReadStates call of any capacity would return next.
C11_ReadStateChangesNothing ==
    [][ReadState
          => /\ UNCHANGED <<m_first_state, m_states_num, m_states, m_private, m_last_state>>
             /\ UNCHANGED <<m_connected, m_connected_count>>
             /\ UNCHANGED delivered
             /\ \A c \in 0 .. MaxCap :
                    DrainLoop(0, <<>>, m_private, c)' = DrainLoop(0, <<>>, m_private, c)]_vars

\* A snapshot of the newest sample has been read between two polls, with samples left
\* for the second one.
C11_Witness ==
    /\ rd_isConnected
    /\ rd_state # ZeroState
    /\ rd_state = GetLastState
    /\ Len(delivered) >= 1
    /\ Len(Unobtained) >= 1

\* C12: without a pad (m_sdl_gamepad is nullptr) SetVibration returns true and
\* SetLightBarRGB does nothing, whatever their arguments, and neither reaches the backend
\* or changes the ring, the connection flag or the connection count.
C12_NoGamepadNoFailure ==
    [][/\ \A small, large \in MotorLevels, rumbled \in BOOLEAN :
              (SetVibration(small, large, rumbled) /\ m_sdl_gamepad = NoGamepad)
                  => /\ vib_ret' = <<TRUE>>
                     /\ UNCHANGED <<rumble, led, m_sdl_gamepad>>
                     /\ UNCHANGED <<ring, conn>>
       /\ \A r, g, b \in LedLevels :
              (SetLightBarRGB(r, g, b) /\ m_sdl_gamepad = NoGamepad)
                  => /\ UNCHANGED <<rumble, led, m_sdl_gamepad, vib_ret>>
                     /\ UNCHANGED <<ring, conn>>]_vars

\* SetVibration has returned true although no motor command has ever reached a pad, with
\* samples in the ring.
C12_Witness ==
    /\ m_sdl_gamepad = NoGamepad
    /\ vib_ret = <<TRUE>>
    /\ rumble = <<>>
    /\ led = <<>>
    /\ m_states_num >= 1

\* C13: every ReadStates call returns between 0 and states_num entries and writes no
\* entry of states[] beyond the first states_num, for every states_num >= 0.
C13_WithinCapacity ==
    call_cap >= 0
        => /\ 0 <= ret_num
           /\ ret_num <= call_cap
           /\ Len(out_states) <= call_cap

\* The slots of the live samples whose obtained flag is false, oldest first.
FreshSlots == LET fresh(i) == ~m_private[i] IN SelectSeq(LiveSeq, fresh)

\* C14: a ReadStates call on a connected controller with a non-empty ring returns exactly
\* k = min(states_num, u) entries, u being the number of live samples not yet obtained:
\* the k oldest of them, in order, and it sets the obtained flag of exactly their slots.
\* So a call right after a complete one returns 0, and after one more append just the
\* new sample.
C14_ReturnsOldestFresh ==
    [][\A c \in 0 .. MaxCap :
          (ReadStates(c) /\ m_connected /\ m_states_num > 0)
              => LET k == Min(c, Len(FreshSlots))
                 IN  /\ ret_num' = k
                     /\ out_states' = [j \in 1 .. k |-> m_states[FreshSlots[j]]]
                     /\ out_ids' = [j \in 1 .. k |-> slot_id[FreshSlots[j]]]
                     /\ \A i \in Slots :
                            m_private'[i]
                                <=> (m_private[i] \/ \E j \in 1 .. k : FreshSlots[j] = i)
                     /\ UNCHANGED <<m_first_state, m_states_num, m_states, m_last_state>>]_vars

\* Two samples were appended and returned together, then a third was appended and
\* returned alone.
C14_Witness ==
    /\ delivered = <<1, 2, 3>>
    /\ out_ids = <<3>>
    /\ call_cap = MaxCap
    /\ ret_num = 1

\* C15: an append into a full ring drops exactly the oldest live sample, obtained or not:
\* the other MAX_STATES - 1 samples move up one position with their records and obtained
\* flags as they were, the new record becomes the newest with its flag false, the count
\* stays MAX_STATES, and the live samples are the last MAX_STATES appended, in order.
C15_EvictsOldestOnly ==
    [][\A t \in Producers :
          (Finish(t) /\ m_states_num = MAX_STATES)
              => /\ m_states_num' = MAX_STATES
                 /\ \A k \in 1 .. MAX_STATES - 1 :
                        /\ m_states'[LiveSeq'[k]] = m_states[LiveSeq[k + 1]]
                        /\ m_private'[LiveSeq'[k]] = m_private[LiveSeq[k + 1]]
                        /\ slot_id'[LiveSeq'[k]] = slot_id[LiveSeq[k + 1]]
                 /\ m_states'[LiveSeq'[MAX_STATES]] = state[t]
                 /\ ~m_private'[LiveSeq'[MAX_STATES]]
                 /\ \A k \in 1 .. MAX_STATES :
                        slot_id'[LiveSeq'[k]] = appends' - MAX_STATES + k]_vars

\* The first sample was dropped without ever being returned, and the second, which had
\* its turn after that, is still live with its flag set.
C15_Witness ==
    /\ evictions = 1
    /\ delivered = <<2>>
    /\ m_private[LiveSeq[1]]
    /\ ~m_private[LiveSeq[MAX_STATES]]

\* C16: while the ring holds samples, m_last_state is the record in the slot
\* (m_first_state + m_states_num - 1) % MAX_STATES; while it holds none, m_last_state
\* is the all-zero default.
C16_LastStateIsNewestSlot ==
    /\ m_states_num > 0
          => m_last_state = m_states[(m_first_state + m_states_num - 1) % MAX_STATES]
    /\ m_states_num = 0 => m_last_state = ZeroState

\* A full ring that has wrapped, some of it already returned, whose newest record is
\* not the default.
C16_Witness ==
    /\ m_states_num = MAX_STATES
    /\ m_first_state = 1
    /\ evictions >= 1
    /\ m_last_state # ZeroState
    /\ m_last_state = m_states[0]
    /\ delivered # <<>>

\* C17: m_states_num never goes back to 0. It is 0 exactly while nothing has been
\* appended, so a drain takes its m_states_num == 0 branch, and GetLastState its
\* m_last_state branch, only before the first append.
C17_NeverEmptyAgain ==
    /\ (m_states_num = 0) <=> (appends = 0)
    /\ appends >= 1 => m_states_num >= 1 /\ GetLastState = m_states[LastIndex]
    /\ out_ids = <<0>> => out_appends = 0

\* Every live sample has been returned, one has been evicted, the last connected drain
\* found nothing new, and the ring still holds MAX_STATES samples.
C17_Witness ==
    /\ evictions >= 1
    /\ m_states_num = MAX_STATES
    /\ \A i \in Slots : m_private[i]
    /\ out_isConnected
    /\ out_appends = appends
    /\ ret_num = 0
    /\ call_cap >= 1

\* C18: the live samples already returned are a prefix of the live window: when the
\* sample at position k from m_first_state has its obtained flag set, so has every
\* live sample at a position before k.
C18_ObtainedIsPrefix ==
    \A k \in 1 .. m_states_num :
        m_private[LiveSeq[k]] => \A j \in 1 .. k - 1 : m_private[LiveSeq[j]]

\* A ring that has wrapped, with two samples returned by cap-limited drains and a
\* newer one not yet returned.
C18_Witness ==
    /\ evictions >= 1
    /\ m_first_state # 0
    /\ m_states_num = MAX_STATES
    /\ m_private[LiveSeq[1]]
    /\ m_private[LiveSeq[2]]
    /\ ~m_private[LiveSeq[MAX_STATES]]
    /\ Len(delivered) >= 2

\* A consumer that keeps up: the pad, once attached, stays attached, every drain is
\* made while it is attached with room for a whole ring, and no more than MAX_STATES
\* appends are made before the first drain and between two drains.
NextLossless ==
    \/ \E t \in Producers, ev \in PadEvents :
           /\ appends + InFlight < MaxAppends
           /\ appends + InFlight - out_appends < MAX_STATES
           /\ Begin(t, ev)
    \/ \E t \in Producers : Finish(t)
    \/ \E states_num \in MAX_STATES .. MaxCap : m_connected /\ ReadStates(states_num)
    \/ Connect

SpecLossless == Init /\ [][NextLossless]_vars

\* C19: with a consumer that keeps up, every appended sample is returned by exactly one
\* drain: no sample is returned twice, a sample not yet returned is still live with its
\* flag unset (none is evicted before it is obtained), and once a drain has run after
\* the latest append the samples returned are all the samples appended, in order.
C19_LosslessWhenKeepingUp ==
    /\ \A j, k \in 1 .. Len(delivered) : delivered[j] = delivered[k] => j = k
    /\ \A id \in 1 .. appends :
           \/ \E k \in 1 .. Len(delivered) : delivered[k] = id
           \/ \E k \in 1 .. m_states_num :
                  slot_id[LiveSeq[k]] = id /\ ~m_private[LiveSeq[k]]
    /\ (call_cap >= 0 /\ out_appends = appends) => delivered = [k \in 1 .. appends |-> k]

\* Two drains have returned four samples between them, and the first of the four has
\* since been evicted.
C19_Witness ==
    /\ evictions = 1
    /\ delivered = <<1, 2, 3, 4>>
    /\ Len(out_ids) < Len(delivered)
    /\ m_connected

====
